---- MODULE Spec2Model ----
(***************************************************************************)
(* Model of mozetl/topline/topline_dashboard.py: reformat_data, the        *)
(* normalise / cube / filter / project transform behind the topline        *)
(* dashboard.                                                              *)
(*                                                                         *)
(* A dataframe is a bag (multiset) of rows; a row is a function from       *)
(* column names to cells.  A string cell is a TLA+ string, the SQL null    *)
(* of a string column is NULL.  The date token and the date are sequences  *)
(* of characters, so that parsing and formatting are computed; the SQL     *)
(* null of the date column is the empty sequence NullDate.  Aggregate      *)
(* fields are non-negative integers.  The engine's cube keeps the group    *)
(* of a null value apart from the subtotal row by a grouping id, kept here *)
(* as gid beside each cube row and dropped by the final select.            *)
(***************************************************************************)
EXTENDS Integers, Sequences, FiniteSets, Bags, TLC

VARIABLES df, topline_names, historical_names, pc,
          cubed_df, filtered_df, formatted_df

vars == <<df, topline_names, historical_names, pc,
          cubed_df, filtered_df, formatted_df>>

(***************************************************************************)
(* Bounds and input domains.                                               *)
(***************************************************************************)
MaxRows == 2

NULL == "<null>"
NullDate == <<>>

Tok0101 == <<"2", "0", "1", "9", "0", "1", "0", "1">>
Tok0102 == <<"2", "0", "1", "9", "0", "1", "0", "2">>
TokBad == <<"u", "n", "k", "n", "o", "w", "n", "!">>
\* a valid token followed by a stray character
TokTrail == <<"2", "0", "1", "9", "0", "1", "0", "1", "x">>

\* The rows the reader may supply.  Two families keep the row universe small:
\* ordinary rows (an allow-listed and another region, two channels, two valid
\* dates, positive aggregates) and edge rows (a null region, a channel
\* literally named "all", a null os, malformed tokens, zero aggregates).
\* Aggregates are <<actives, hours>>, non-negative as the input schema says.
OrdinaryRows ==
    {[geo |-> g, channel |-> c, os |-> "Windows", report_start |-> t,
      actives |-> v[1], hours |-> v[2]] :
        g \in {"FR", "KR"}, c \in {"release", "beta"},
        t \in {Tok0101, Tok0102}, v \in {<<5, 10>>, <<3, 4>>}}

EdgeRows ==
    {[geo |-> NULL, channel |-> c, os |-> o, report_start |-> t,
      actives |-> v[1], hours |-> v[2]] :
        c \in {"release", "all"}, o \in {"Windows", NULL},
        t \in {Tok0101, TokBad, TokTrail}, v \in {<<0, 0>>, <<0, 4>>}}

InputRows == OrdinaryRows \cup EdgeRows

\* mozetl.topline.schema.topline_schema.names: two field sets, two orders
ToplineSchemas ==
    {<<"geo", "channel", "os", "report_start", "actives", "hours">>,
     <<"report_start", "hours", "os", "channel", "geo">>}

\* mozetl.topline.schema.historical_schema.names: with and without a column
\* for the source field hours, each with a column the source lacks
HistoricalSchemas ==
    {<<"geo", "channel", "os", "date", "actives", "hours", "inactives">>,
     <<"date", "geo", "channel", "os", "inactives", "actives">>}

(***************************************************************************)
(* Helpers.                                                                *)
(***************************************************************************)
Range(s) == {s[i] : i \in 1..Len(s)}

RECURSIVE SumBag(_, _, _)
\* F.sum(col) over the rows S of bag B (each row counted B[r] times)
SumBag(B, S, col) ==
    IF S = {} THEN 0
    ELSE LET r == CHOOSE x \in S : TRUE
         IN B[r] * r[col] + SumBag(B, S \ {r}, col)

RECURSIVE SumCols(_, _)
\* Python sum([F.col(x) for x in cols]) on one row
SumCols(row, cols) ==
    IF cols = {} THEN 0
    ELSE LET c == CHOOSE x \in cols : TRUE
         IN row[c] + SumCols(row, cols \ {c})

(***************************************************************************)
(* Line 33-35: the countries of interest.                                  *)
(***************************************************************************)
countries == {"US", "CA", "BR", "MX", "FR", "ES", "IT", "PL",
              "TR", "RU", "DE", "IN", "ID", "CN", "JP", "GB"}

\* faulty variant: the region is passed through unbucketed
BucketGeo_Identity(geo) == geo

\* F.when(F.col('geo').isin(countries), F.col('geo')).otherwise('Other');
\* isin of a null is null, which when() treats as not matched
BucketGeo(geo) == IF geo # NULL /\ geo \in countries THEN geo ELSE "Other"

(***************************************************************************)
(* Lines 67-72: unix_timestamp(report_start, 'yyyyMMdd') then              *)
(* from_unixtime(.., 'yyyy-MM-dd').  unix_timestamp parses with the JDK's  *)
(* SimpleDateFormat (Spark 2.x, Java 8, Locale.US), strict about field     *)
(* values (setLenient(false)) but not about the token's shape: a field     *)
(* may be preceded by blanks and may be shorter than its width, the day    *)
(* field reads to the end of its number, and text after the day is         *)
(* ignored.  Each field is read by DecimalFormat.parse, which takes any    *)
(* decimal digit of Unicode, a minus sign, an exponent, and the NaN and    *)
(* infinity symbols, and the number is narrowed to a 32-bit int.  The      *)
(* session time zone is taken to have no gap at midnight.                  *)
(*                                                                         *)
(* A token is a sequence of characters: an ASCII character is the string   *)
(* of that character, any other character of the BMP is the string of its  *)
(* code point, "U+0661".                                                   *)
(***************************************************************************)
DigitChars == <<"0", "1", "2", "3", "4", "5", "6", "7", "8", "9">>

DigitVal(ch) == (CHOOSE i \in 1..10 : DigitChars[i] = ch) - 1

\* Character.digit(ch, 10) is also defined on these characters (Unicode 6.2
\* of Java 8): each row holds the digits 0 to 9 of one script
DigitBlocks == <<
    <<"U+0660", "U+0661", "U+0662", "U+0663", "U+0664",
      "U+0665", "U+0666", "U+0667", "U+0668", "U+0669">>,
    <<"U+06F0", "U+06F1", "U+06F2", "U+06F3", "U+06F4",
      "U+06F5", "U+06F6", "U+06F7", "U+06F8", "U+06F9">>,
    <<"U+07C0", "U+07C1", "U+07C2", "U+07C3", "U+07C4",
      "U+07C5", "U+07C6", "U+07C7", "U+07C8", "U+07C9">>,
    <<"U+0966", "U+0967", "U+0968", "U+0969", "U+096A",
      "U+096B", "U+096C", "U+096D", "U+096E", "U+096F">>,
    <<"U+09E6", "U+09E7", "U+09E8", "U+09E9", "U+09EA",
      "U+09EB", "U+09EC", "U+09ED", "U+09EE", "U+09EF">>,
    <<"U+0A66", "U+0A67", "U+0A68", "U+0A69", "U+0A6A",
      "U+0A6B", "U+0A6C", "U+0A6D", "U+0A6E", "U+0A6F">>,
    <<"U+0AE6", "U+0AE7", "U+0AE8", "U+0AE9", "U+0AEA",
      "U+0AEB", "U+0AEC", "U+0AED", "U+0AEE", "U+0AEF">>,
    <<"U+0B66", "U+0B67", "U+0B68", "U+0B69", "U+0B6A",
      "U+0B6B", "U+0B6C", "U+0B6D", "U+0B6E", "U+0B6F">>,
    <<"U+0BE6", "U+0BE7", "U+0BE8", "U+0BE9", "U+0BEA",
      "U+0BEB", "U+0BEC", "U+0BED", "U+0BEE", "U+0BEF">>,
    <<"U+0C66", "U+0C67", "U+0C68", "U+0C69", "U+0C6A",
      "U+0C6B", "U+0C6C", "U+0C6D", "U+0C6E", "U+0C6F">>,
    <<"U+0CE6", "U+0CE7", "U+0CE8", "U+0CE9", "U+0CEA",
      "U+0CEB", "U+0CEC", "U+0CED", "U+0CEE", "U+0CEF">>,
    <<"U+0D66", "U+0D67", "U+0D68", "U+0D69", "U+0D6A",
      "U+0D6B", "U+0D6C", "U+0D6D", "U+0D6E", "U+0D6F">>,
    <<"U+0E50", "U+0E51", "U+0E52", "U+0E53", "U+0E54",
      "U+0E55", "U+0E56", "U+0E57", "U+0E58", "U+0E59">>,
    <<"U+0ED0", "U+0ED1", "U+0ED2", "U+0ED3", "U+0ED4",
      "U+0ED5", "U+0ED6", "U+0ED7", "U+0ED8", "U+0ED9">>,
    <<"U+0F20", "U+0F21", "U+0F22", "U+0F23", "U+0F24",
      "U+0F25", "U+0F26", "U+0F27", "U+0F28", "U+0F29">>,
    <<"U+1040", "U+1041", "U+1042", "U+1043", "U+1044",
      "U+1045", "U+1046", "U+1047", "U+1048", "U+1049">>,
    <<"U+1090", "U+1091", "U+1092", "U+1093", "U+1094",
      "U+1095", "U+1096", "U+1097", "U+1098", "U+1099">>,
    <<"U+17E0", "U+17E1", "U+17E2", "U+17E3", "U+17E4",
      "U+17E5", "U+17E6", "U+17E7", "U+17E8", "U+17E9">>,
    <<"U+1810", "U+1811", "U+1812", "U+1813", "U+1814",
      "U+1815", "U+1816", "U+1817", "U+1818", "U+1819">>,
    <<"U+1946", "U+1947", "U+1948", "U+1949", "U+194A",
      "U+194B", "U+194C", "U+194D", "U+194E", "U+194F">>,
    <<"U+19D0", "U+19D1", "U+19D2", "U+19D3", "U+19D4",
      "U+19D5", "U+19D6", "U+19D7", "U+19D8", "U+19D9">>,
    <<"U+1A80", "U+1A81", "U+1A82", "U+1A83", "U+1A84",
      "U+1A85", "U+1A86", "U+1A87", "U+1A88", "U+1A89">>,
    <<"U+1A90", "U+1A91", "U+1A92", "U+1A93", "U+1A94",
      "U+1A95", "U+1A96", "U+1A97", "U+1A98", "U+1A99">>,
    <<"U+1B50", "U+1B51", "U+1B52", "U+1B53", "U+1B54",
      "U+1B55", "U+1B56", "U+1B57", "U+1B58", "U+1B59">>,
    <<"U+1BB0", "U+1BB1", "U+1BB2", "U+1BB3", "U+1BB4",
      "U+1BB5", "U+1BB6", "U+1BB7", "U+1BB8", "U+1BB9">>,
    <<"U+1C40", "U+1C41", "U+1C42", "U+1C43", "U+1C44",
      "U+1C45", "U+1C46", "U+1C47", "U+1C48", "U+1C49">>,
    <<"U+1C50", "U+1C51", "U+1C52", "U+1C53", "U+1C54",
      "U+1C55", "U+1C56", "U+1C57", "U+1C58", "U+1C59">>,
    <<"U+A620", "U+A621", "U+A622", "U+A623", "U+A624",
      "U+A625", "U+A626", "U+A627", "U+A628", "U+A629">>,
    <<"U+A8D0", "U+A8D1", "U+A8D2", "U+A8D3", "U+A8D4",
      "U+A8D5", "U+A8D6", "U+A8D7", "U+A8D8", "U+A8D9">>,
    <<"U+A900", "U+A901", "U+A902", "U+A903", "U+A904",
      "U+A905", "U+A906", "U+A907", "U+A908", "U+A909">>,
    <<"U+A9D0", "U+A9D1", "U+A9D2", "U+A9D3", "U+A9D4",
      "U+A9D5", "U+A9D6", "U+A9D7", "U+A9D8", "U+A9D9">>,
    <<"U+AA50", "U+AA51", "U+AA52", "U+AA53", "U+AA54",
      "U+AA55", "U+AA56", "U+AA57", "U+AA58", "U+AA59">>,
    <<"U+ABF0", "U+ABF1", "U+ABF2", "U+ABF3", "U+ABF4",
      "U+ABF5", "U+ABF6", "U+ABF7", "U+ABF8", "U+ABF9">>,
    <<"U+FF10", "U+FF11", "U+FF12", "U+FF13", "U+FF14",
      "U+FF15", "U+FF16", "U+FF17", "U+FF18", "U+FF19">>>>

AsciiDigits == Range(DigitChars)

OtherDigits == UNION {Range(DigitBlocks[b]) : b \in DOMAIN DigitBlocks}

\* the digit a character stands for, -1 when it is no digit
Digit(ch) ==
    IF ch \in AsciiDigits THEN DigitVal(ch)
    ELSE IF ch \in OtherDigits
         THEN (CHOOSE i \in 1..10 :
                  \E b \in DOMAIN DigitBlocks : DigitBlocks[b][i] = ch) - 1
         ELSE -1

\* DecimalFormatSymbols of Locale.US
MinusSign == "-"

ExponentSeparator == "E"

NaNSymbol == "U+FFFD"

InfinitySymbol == "U+221E"

\* Integer.MAX_VALUE, Integer.MIN_VALUE
MaxInt == 2147483647

MinInt == (-MaxInt) - 1

Blanks == {" ", "\t"}

RECURSIVE SkipBlanks(_, _)
\* the first position from p on that holds no blank
SkipBlanks(tok, p) ==
    IF p <= Len(tok) /\ tok[p] \in Blanks THEN SkipBlanks(tok, p + 1) ELSE p

RECURSIVE ScanDigits(_, _, _, _, _)
\* the digit loop of DecimalFormat.subparse from p up to last: <<the digits
\* read, leading zeros left out; whether a digit was seen; the position
\* after the run>>
ScanDigits(tok, p, last, ds, saw) ==
    IF p > last THEN <<ds, saw, p>>
    ELSE LET d == Digit(tok[p])
         IN IF d < 0 THEN <<ds, saw, p>>
            ELSE IF d = 0 /\ ds = <<>>
                 THEN ScanDigits(tok, p + 1, last, ds, TRUE)
                 ELSE ScanDigits(tok, p + 1, last, Append(ds, d), TRUE)

RECURSIVE TrimZeros(_)
\* the digits without their trailing zeros
TrimZeros(ds) ==
    IF ds # <<>> /\ ds[Len(ds)] = 0
    THEN TrimZeros(SubSeq(ds, 1, Len(ds) - 1)) ELSE ds

\* the digits of -Long.MIN_VALUE
LongMin == <<9, 2, 2, 3, 3, 7, 2, 0, 3, 6, 8, 5, 4, 7, 7, 5, 8, 0, 8>>

RECURSIVE CompareDigits(_, _, _)
\* the digits ds, read as a prefix, against the digits of ms from i on:
\* -1 below, 1 above, 0 equal so far
CompareDigits(ds, ms, i) ==
    IF i > Len(ds) THEN 0
    ELSE IF ds[i] < ms[i] THEN -1
    ELSE IF ds[i] > ms[i] THEN 1
    ELSE CompareDigits(ds, ms, i + 1)

\* DigitList.fitsIntoLong(isPositive, TRUE) for the trimmed digits ds read
\* as 0.ds * 10^decimalAt
FitsIntoLong(ds, decimalAt, isPositive) ==
    IF ds = <<>> THEN TRUE
    ELSE IF decimalAt < Len(ds) \/ decimalAt > Len(LongMin) THEN FALSE
    ELSE IF decimalAt < Len(LongMin) THEN TRUE
    ELSE LET c == CompareDigits(ds, LongMin, 1)
         IN IF c # 0 THEN c < 0
            ELSE IF Len(ds) < decimalAt THEN TRUE ELSE ~isPositive

\* a 32-bit word as <<high half, low half>>, times ten plus d
Step32(x, d) ==
    LET lo == x[2] * 10 + d
        hi == x[1] * 10 + (lo \div 65536)
    IN <<hi % 65536, lo % 65536>>

RECURSIVE Low32(_, _, _, _)
\* the low 32 bits of the number written by the digits ds from i on,
\* followed by zeros zeros
Low32(ds, i, zeros, x) ==
    IF i <= Len(ds) THEN Low32(ds, i + 1, zeros, Step32(x, ds[i]))
    ELSE IF zeros > 0 THEN Low32(ds, i, zeros - 1, Step32(x, 0))
    ELSE x

\* (int) of a long: the low 32 bits as a signed number
ToInt(x) ==
    IF x[1] >= 32768 THEN (x[1] - 65536) * 65536 + x[2]
    ELSE x[1] * 65536 + x[2]

\* -n in 32 bits
Negate32(n) == IF n = MinInt THEN n ELSE -n

\* a + n in 32 bits, for 0 <= a
Add32(a, n) ==
    IF n > MaxInt - a THEN ((n - MaxInt) - 1) + ((a - MaxInt) - 1)
    ELSE a + n

\* the exponent that starts at p, if one does: <<its value, the position
\* after it>>; <<0, p>> when no exponent is read
Exponent(tok, p, last) ==
    IF ~(p <= last /\ tok[p] = ExponentSeparator) THEN <<0, p>>
    ELSE LET neg == p + 1 <= last /\ tok[p + 1] = MinusSign
             s == ScanDigits(tok, IF neg THEN p + 2 ELSE p + 1, last,
                             <<>>, FALSE)
         IN IF ~s[2] \/ ~FitsIntoLong(TrimZeros(s[1]), Len(s[1]), ~neg)
            THEN <<0, p>>
            ELSE LET e == ToInt(Low32(s[1], 1, 0, <<0, 0>>))
                 IN <<IF neg THEN Negate32(e) ELSE e, s[3]>>

RECURSIVE NumberOf(_, _, _)
\* the number written by the digits ds[1] .. ds[n], below 2^31
NumberOf(ds, n, acc) ==
    IF n > Len(ds) THEN acc ELSE NumberOf(ds, n + 1, 10 * acc + ds[n])

RECURSIVE Twice(_, _, _)
\* twice the fraction 0.x[1]..x[i] plus carry: the integer part, then the
\* digits
Twice(x, i, carry) ==
    IF i = 0 THEN <<carry>>
    ELSE LET v == 2 * x[i] + carry
         IN Append(Twice(x, i - 1, v \div 10), v % 10)

RECURSIVE AtMostHalfTo(_, _)
\* 0.x <= 2^-j
AtMostHalfTo(x, j) ==
    IF j = 0 THEN TRUE
    ELSE LET r == Twice(x, Len(x), 0)
         IN IF r[1] = 0 THEN AtMostHalfTo(Tail(r), j - 1)
            ELSE j = 1 /\ \A i \in 2..Len(r) : r[i] = 0

RECURSIVE Log2(_)
\* the exponent of the greatest power of two that is at most n
Log2(n) == IF n < 2 THEN 0 ELSE 1 + Log2(n \div 2)

RECURSIVE IsPowerOfTwo(_)
IsPowerOfTwo(n) == n = 1 \/ (n % 2 = 0 /\ IsPowerOfTwo(n \div 2))

\* Double.parseDouble rounds to the nearest double: n + 0.f (f ends in a
\* non-zero digit, n + 1 <= 2^31) becomes the double n + 1 when it lies
\* within half the spacing of the doubles below n + 1; bits is Log2(n + 1)
\* and pow tells whether n + 1 is a power of two
RoundsUp(f, bits, pow) ==
    LET x == [i \in 1..Len(f) |->
                 IF i = Len(f) THEN 10 - f[i] ELSE 9 - f[i]]
    IN AtMostHalfTo(x, IF pow THEN 54 - bits ELSE 53 - bits)

\* the digits of Integer.MAX_VALUE
MaxIntDigits == <<2, 1, 4, 7, 4, 8, 3, 6, 4, 7>>

\* Number.intValue() of the Double that DigitList.getDouble gives for the
\* trimmed digits ds read as 0.ds * 10^decimalAt: truncated towards zero
\* and saturated
DoubleToInt(ds, decimalAt, neg) ==
    IF decimalAt > Len(LongMin) \/ decimalAt >= Len(ds)
    THEN (IF neg THEN MinInt ELSE MaxInt)
    ELSE IF decimalAt < 0 THEN 0
    ELSE LET ip == SubSeq(ds, 1, decimalAt)
             f == SubSeq(ds, decimalAt + 1, Len(ds))
             c == IF Len(ip) # Len(MaxIntDigits)
                  THEN (IF Len(ip) < Len(MaxIntDigits) THEN -1 ELSE 1)
                  ELSE CompareDigits(ip, MaxIntDigits, 1)
         IN IF c > 0 THEN (IF neg THEN MinInt ELSE MaxInt)
            ELSE IF c = 0
                 THEN (IF neg /\ RoundsUp(f, 31, TRUE)
                       THEN MinInt
                       ELSE IF neg THEN -MaxInt ELSE MaxInt)
            ELSE LET n == NumberOf(ip, 1, 0)
                     r == IF RoundsUp(f, Log2(n + 1), IsPowerOfTwo(n + 1))
                          THEN n + 1 ELSE n
                 IN IF neg THEN -r ELSE r

\* Number.intValue() of the number DecimalFormat.parse returns for the
\* digits ds (as ScanDigits read them) with the exponent exp: a Long when
\* it is integral and in the range of long, a Double otherwise
IntValue(ds, exp, neg) ==
    LET t == TrimZeros(ds)
        decimalAt == Add32(Len(ds), exp)
    IN IF FitsIntoLong(t, decimalAt, ~neg)
       THEN LET n == IF t = <<>> THEN 0
                     ELSE ToInt(Low32(t, 1, decimalAt - Len(t), <<0, 0>>))
            IN IF neg THEN Negate32(n) ELSE n
       ELSE DoubleToInt(t, decimalAt, neg)

\* DecimalFormat.parse on tok[1] .. tok[last] at position p: <<the int
\* value, the position after the number>>, or <<>> when no number is there
ParseNumber(tok, p, last) ==
    IF p <= last /\ tok[p] = NaNSymbol THEN <<0, p + 1>>
    ELSE LET neg == p <= last /\ tok[p] = MinusSign
             q == IF neg THEN p + 1 ELSE p
         IN IF q <= last /\ tok[q] = InfinitySymbol
            THEN <<IF neg THEN MinInt ELSE MaxInt, q + 1>>
            ELSE LET s == ScanDigits(tok, q, last, <<>>, FALSE)
                     e == Exponent(tok, s[3], last)
                 IN IF ~s[2] THEN <<>>
                    ELSE <<IntValue(s[1], e[1], neg), e[2]>>

\* one numeric field of the pattern, read at position start: <<value, next
\* position>>, or <<>> when no number is there.  A field followed by another
\* field (obeyCount) reads within its width, counted from start.
ParseField(tok, start, count, obeyCount) ==
    IF obeyCount /\ start + count - 1 > Len(tok) THEN <<>>
    ELSE ParseNumber(tok, SkipBlanks(tok, start),
                     IF obeyCount THEN start + count - 1 ELSE Len(tok))

\* the calendar of java.util.GregorianCalendar: Julian up to 4 October 1582
IsLeap(y) ==
    IF y < 1583 THEN y % 4 = 0
    ELSE (y % 4 = 0 /\ y % 100 # 0) \/ y % 400 = 0

DaysInMonth(y, m) ==
    IF m = 2 THEN (IF IsLeap(y) THEN 29 ELSE 28)
    ELSE IF m \in {4, 6, 9, 11} THEN 30 ELSE 31

\* GregorianCalendar.getMaximum(YEAR); the calendar ends on 17 August of
\* that year
MaxYear == 292278994

\* the field values a non-lenient calendar accepts
ValidDate(y, m, d) ==
    /\ y >= 1 /\ y <= MaxYear
    /\ m >= 1 /\ m <= 12
    /\ d >= 1 /\ d <= DaysInMonth(y, m)
    /\ ~(y = 1582 /\ m = 10 /\ d \in 5..14)
    /\ ~(y = MaxYear /\ (m > 8 \/ (m = 8 /\ d > 17)))

\* the parsed calendar date <<y, m, d>>, or <<>> (null) when the parse fails
unix_timestamp(tok) ==
    LET y == ParseField(tok, 1, 4, TRUE)
    IN IF y = <<>> THEN <<>>
       ELSE LET m == ParseField(tok, y[2], 2, TRUE)
            IN IF m = <<>> THEN <<>>
               ELSE LET d == ParseField(tok, m[2], 2, FALSE)
                    IN IF d = <<>> THEN <<>>
                       ELSE IF ValidDate(y[1], m[1], d[1])
                            THEN <<y[1], m[1], d[1]>> ELSE <<>>

Pad2(n) == <<DigitChars[((n \div 10) % 10) + 1], DigitChars[(n % 10) + 1]>>

Pad4(n) == Pad2(n \div 100) \o Pad2(n % 100)

RECURSIVE Decimal(_)
\* the decimal digits of n
Decimal(n) ==
    IF n < 10 THEN <<DigitChars[n + 1]>>
    ELSE Append(Decimal(n \div 10), DigitChars[(n % 10) + 1])

\* the pattern letters yyyy: at least four digits
Year4(y) == IF y < 10000 THEN Pad4(y) ELSE Decimal(y)

\* from_unixtime(ts, 'yyyy-MM-dd'); null in, null out
from_unixtime(ts) ==
    IF ts = <<>> THEN NullDate
    ELSE Year4(ts[1]) \o <<"-">> \o Pad2(ts[2]) \o <<"-">> \o Pad2(ts[3])

DateExpr(tok) == from_unixtime(unix_timestamp(tok))

(***************************************************************************)
(* Lines 57-79: the select sub-expressions and the column groups.          *)
(***************************************************************************)
\* the keys of the dict topline_columns
topline_columns(names) == (Range(names) \cup {"geo", "date"}) \ {"report_start"}

attributes == {"geo", "channel", "os", "date"}

aggregates(names) == topline_columns(names) \ attributes

\* df.select(*topline_columns.values()) on one row
SelectRow(r, names) ==
    LET date == DateExpr(r.report_start)
    IN [c \in topline_columns(names) |->
           IF c = "geo" THEN BucketGeo(r.geo)
           ELSE IF c = "date" THEN date
           ELSE r[c]]

RECURSIVE SelectRows(_, _, _)
SelectRows(B, S, names) ==
    IF S = {} THEN EmptyBag
    ELSE LET r == CHOOSE x \in S : TRUE
         IN (SelectRow(r, names) :> B[r]) (+) SelectRows(B, S \ {r}, names)

\* the dataframe after select: equal rows add their multiplicities
Selected(B, names) == SelectRows(B, DOMAIN B, names)

(***************************************************************************)
(* Lines 85-92: cube, sum, drop the null dates, fill the nulls.            *)
(***************************************************************************)
\* the null of a string column: the grouping columns a grouping set leaves out
NullOf(c) == IF c = "date" THEN NullDate ELSE NULL

\* the rows of sel that fall in the group of row n under grouping set G
GroupOf(sel, G, n) == {m \in DOMAIN sel : \A a \in G : m[a] = n[a]}

\* one row of .cube(*attributes).agg(sum...): grouping set G, group of n
CubeRow(sel, G, n, names) ==
    [c \in topline_columns(names) |->
        IF c \in G THEN n[c]
        ELSE IF c \in attributes THEN NullOf(c)
        ELSE SumBag(sel, GroupOf(sel, G, n), c)]

\* the cube: one row per grouping set and group.  gid is the grouping id
\* that keeps the group of a null value apart from the subtotal row.
Cube(sel, names) ==
    {[gid |-> G, row |-> CubeRow(sel, G, n, names)] :
        G \in SUBSET attributes, n \in DOMAIN sel}

\* .where(F.col('date').isNotNull())
WhereDate(cube) == {c \in cube : c.row["date"] # NullDate}

AllDate == <<"a", "l", "l">>

\* .na.fill('all') on one row: every null of a string column becomes 'all'
FillRow(row) ==
    [c \in DOMAIN row |->
        IF c = "date" THEN (IF row[c] = NullDate THEN AllDate ELSE row[c])
        ELSE IF c \in attributes THEN (IF row[c] = NULL THEN "all" ELSE row[c])
        ELSE row[c]]

NaFill(cube) == {[gid |-> c.gid, row |-> FillRow(c.row)] : c \in cube}

CubedDf(B, names) == NaFill(WhereDate(Cube(Selected(B, names), names)))

(***************************************************************************)
(* Lines 96-100: the total column and the filter on it.                    *)
(***************************************************************************)
Total(row, names) == SumCols(row, aggregates(names))

\* .withColumn('total', ...) on one cube row
WithTotal(c, names) ==
    [gid |-> c.gid,
     row |-> [x \in (DOMAIN c.row) \cup {"total"} |->
                IF x = "total" THEN Total(c.row, names) ELSE c.row[x]]]

\* faulty variant: >= in place of >
KeepTotal_Ge(total) == total >= 0

\* F.col('total') > 0.0
KeepTotal(total) == total > 0

\* faulty variant: a row is kept only when every aggregate is positive
FilteredDf_EveryPositive(cubed, names) ==
    {WithTotal(c, names) : c \in {x \in cubed : \A a \in aggregates(names) : x.row[a] > 0}}

FilteredDf(cubed, names) ==
    {c \in {WithTotal(x, names) : x \in cubed} : KeepTotal(c.row["total"])}

(***************************************************************************)
(* Lines 106-111: select in the order of the historical schema.            *)
(***************************************************************************)
\* faulty variant: the filler is 1
default_column_One(name) == 1

default_column(name) == 0

ColumnExpr(row, name, names) ==
    IF name \in topline_columns(names) THEN row[name] ELSE default_column(name)

ProjectRow(row, names, hist) ==
    [name \in Range(hist) |-> ColumnExpr(row, name, names)]

RECURSIVE ProjectRows(_, _, _)
ProjectRows(S, names, hist) ==
    IF S = {} THEN EmptyBag
    ELSE LET c == CHOOSE x \in S : TRUE
         IN SetToBag({ProjectRow(c.row, names, hist)})
              (+) ProjectRows(S \ {c}, names, hist)

\* the output dataframe: its column list and its bag of rows
FormattedDf(filtered, names, hist) ==
    [columns |-> hist, rows |-> ProjectRows(filtered, names, hist)]

\* reformat_data as a function of the dataframe and the two schemas
reformat_data(B, names, hist) ==
    FormattedDf(FilteredDf(CubedDf(B, names), names), names, hist)

(***************************************************************************)
(* The state machine: the reader hands over a dataframe, reformat_data     *)
(* runs once on it.                                                        *)
(***************************************************************************)
NoDf == [columns |-> <<>>, rows |-> EmptyBag]

Init ==
    /\ df = EmptyBag
    /\ topline_names \in ToplineSchemas
    /\ historical_names \in HistoricalSchemas
    /\ pc = "read"
    /\ cubed_df = {}
    /\ filtered_df = {}
    /\ formatted_df = NoDf

\* the reader supplies one more row of the input dataframe
AddRow(r) ==
    /\ pc = "read"
    /\ BagCardinality(df) < MaxRows
    /\ df' = df (+) SetToBag({r})
    /\ UNCHANGED <<topline_names, historical_names, pc,
                   cubed_df, filtered_df, formatted_df>>

\* reformat_data(df), lines 43-113
ReformatData ==
    /\ pc = "read"
    /\ pc' = "done"
    /\ cubed_df' = CubedDf(df, topline_names)
    /\ filtered_df' = FilteredDf(cubed_df', topline_names)
    /\ formatted_df' = FormattedDf(filtered_df', topline_names, historical_names)
    /\ UNCHANGED <<df, topline_names, historical_names>>

Next ==
    \/ \E r \in InputRows : AddRow(r)
    \/ ReformatData

Spec == Init /\ [][Next]_vars

(***************************************************************************)
(* Vocabulary of the properties, stated on the input and the output only.  *)
(***************************************************************************)
Done == pc = "done"

OutRows == DOMAIN formatted_df.rows

Dims == {"geo", "channel", "os"}

\* a token of eight digits naming a calendar day
ValidYYYYMMDD(t) ==
    /\ Len(t) = 8
    /\ \A i \in 1..8 : t[i] \in Range(DigitChars)
    /\ LET y == 1000 * DigitVal(t[1]) + 100 * DigitVal(t[2])
                 + 10 * DigitVal(t[3]) + DigitVal(t[4])
            m == 10 * DigitVal(t[5]) + DigitVal(t[6])
            d == 10 * DigitVal(t[7]) + DigitVal(t[8])
       IN /\ m >= 1 /\ m <= 12 /\ d >= 1
          /\ d <= (IF m = 2
                   THEN (IF (y % 4 = 0 /\ y % 100 # 0) \/ y % 400 = 0
                         THEN 29 ELSE 28)
                   ELSE IF m \in {4, 6, 9, 11} THEN 30 ELSE 31)

\* YYYYMMDD rewritten as YYYY-MM-DD, character by character
Hyphenate(t) ==
    SubSeq(t, 1, 4) \o <<"-">> \o SubSeq(t, 5, 6) \o <<"-">> \o SubSeq(t, 7, 8)

\* the part of bag B whose rows lie in S
BagOn(B, S) == [r \in (DOMAIN B) \cap S |-> B[r]]

ValidRows == {r \in DOMAIN df : ValidYYYYMMDD(r.report_start)}

InvalidRows == (DOMAIN df) \ ValidRows

(***************************************************************************)
(* C2.  Region bucketing: the normalized region of an input row is the     *)
(* region itself when it is one of the 16 allow-listed codes and "Other"   *)
(* otherwise; every output geo is an allow-listed code, "Other" or "all";  *)
(* and rows outside the allow-list contribute to no output row whose geo   *)
(* is an allow-listed code (removing them leaves those rows unchanged).    *)
(***************************************************************************)
C2_RegionBucketing ==
    Done =>
      /\ Cardinality(countries) = 16
      /\ \A r \in DOMAIN df :
            SelectRow(r, topline_names)["geo"]
              = (IF r.geo \in countries THEN r.geo ELSE "Other")
      /\ \A o \in OutRows : o["geo"] \in countries \cup {"Other", "all"}
      /\ LET inside == BagOn(df, {r \in DOMAIN df : r.geo \in countries})
             without == reformat_data(inside, topline_names, historical_names).rows
             listed(B) == {o \in DOMAIN B : o["geo"] \in countries}
         IN BagOn(formatted_df.rows, listed(formatted_df.rows))
              = BagOn(without, listed(without))

\* a KR row and an FR row were reformatted, and both regions show in the output
C2_Witness ==
    /\ Done
    /\ \E r \in ValidRows : r.geo = "KR" /\ r.actives + r.hours > 0
    /\ \E o \in OutRows : o["geo"] = "Other"
    /\ \E o \in OutRows : o["geo"] = "FR"

(***************************************************************************)
(* C3 as claimed.  Every output row has a concrete date (not null, not     *)
(* "all"), and that date is the YYYY-MM-DD form of a valid YYYYMMDD token   *)
(* carried by some input row.                                              *)
(***************************************************************************)
C3_ConcreteDate ==
    Done =>
      \A o \in OutRows :
        /\ o["date"] # NullDate
        /\ o["date"] # AllDate
        /\ \E r \in ValidRows : Hyphenate(r.report_start) = o["date"]

(***************************************************************************)
(* C5.  Schema reconciliation: the output's column list is the historical  *)
(* schema's, in its order; every output row has exactly those columns; a   *)
(* target column that is a source field carries the filtered cube row's    *)
(* value, a target column absent from the source is 0, and no other        *)
(* column appears.                                                         *)
(***************************************************************************)
C5_SchemaReconciliation ==
    Done =>
      LET src == topline_columns(topline_names)
          tgt == Range(historical_names)
      IN /\ formatted_df.columns = historical_names
         /\ \A o \in OutRows :
              /\ DOMAIN o = tgt
              /\ \A col \in tgt \ src : o[col] = 0
              /\ \E c \in filtered_df : \A col \in tgt \cap src : o[col] = c.row[col]
         /\ \A c \in filtered_df :
              \E o \in OutRows : \A col \in tgt \cap src : o[col] = c.row[col]

\* output was produced with a target column the source lacks and a source
\* field the target lacks
C5_Witness ==
    /\ Done
    /\ OutRows # {}
    /\ "hours" \in topline_columns(topline_names) \ Range(historical_names)
    /\ "inactives" \in Range(historical_names) \ topline_columns(topline_names)

(***************************************************************************)
(* C6 as claimed.  Rows whose token is no valid YYYYMMDD date are dropped   *)
(* silently: the output is the output of the same dataset with those rows  *)
(* removed.                                                                *)
(***************************************************************************)
C6_MalformedDropped ==
    Done =>
      formatted_df
        = reformat_data(BagOn(df, ValidRows), topline_names, historical_names)

(***************************************************************************)
(* The cube as the specification describes it, computed from the input:    *)
(* a key gives every dimension a concrete value or the wildcard WILD.      *)
(***************************************************************************)
WILD == "<wildcard>"

\* an input row with a valid token, its dimensions normalized
NormRow(r) ==
    [date |-> Hyphenate(r.report_start),
     geo |-> IF r.geo \in countries THEN r.geo ELSE "Other",
     channel |-> r.channel,
     os |-> r.os,
     actives |-> r.actives,
     hours |-> r.hours]

RECURSIVE NormRows(_)
NormRows(S) ==
    IF S = {} THEN EmptyBag
    ELSE LET r == CHOOSE x \in S : TRUE
         IN (NormRow(r) :> df[r]) (+) NormRows(S \ {r})

\* the normalized dataset: the input rows with a valid token
Normalized == NormRows(ValidRows)

\* an input row under the date the parser reads from its token
DatedRow(r) == [NormRow(r) EXCEPT !["date"] = DateExpr(r.report_start)]

RECURSIVE DatedRows(_)
DatedRows(S) ==
    IF S = {} THEN EmptyBag
    ELSE LET r == CHOOSE x \in S : TRUE
         IN (DatedRow(r) :> df[r]) (+) DatedRows(S \ {r})

\* the normalized dataset as the cube receives it: the input rows whose
\* token the parser reads a date from
Dated == DatedRows({r \in DOMAIN df : DateExpr(r.report_start) # NullDate})

\* the key of normalized row n's group when the dimensions in W are wildcarded
KeyOf(n, W) == [d \in attributes |-> IF d \in W THEN WILD ELSE n[d]]

\* the keys of the cube of normalized dataset N
CubeKeys(N) == {KeyOf(n, W) : n \in DOMAIN N, W \in SUBSET Dims}

\* the rows of N summed into the cube row of key k
Contributors(N, k) ==
    {n \in DOMAIN N : \A d \in attributes : k[d] = WILD \/ k[d] = n[d]}

RefSum(N, k, a) == SumBag(N, Contributors(N, k), a)

RECURSIVE RefTotalOver(_, _, _)
RefTotalOver(N, k, cols) ==
    IF cols = {} THEN 0
    ELSE LET a == CHOOSE x \in cols : TRUE
         IN RefSum(N, k, a) + RefTotalOver(N, k, cols \ {a})

\* the total of a cube row across all numeric aggregate fields of the source
RefTotal(N, k) == RefTotalOver(N, k, aggregates(topline_names))

\* a cube row under the target layout; the wildcard and a null category are
\* both written "all"
ExpectedRow(N, k) ==
    [name \in Range(historical_names) |->
        IF name = "date" THEN k[name]
        ELSE IF name \in Dims
             THEN (IF k[name] \in {WILD, NULL} THEN "all" ELSE k[name])
        ELSE IF name \in aggregates(topline_names) THEN RefSum(N, k, name)
        ELSE 0]

RECURSIVE ExpectedRows(_, _)
\* the rows of the cube rows K with a non-zero total
ExpectedRows(N, K) ==
    IF K = {} THEN EmptyBag
    ELSE LET k == CHOOSE x \in K : TRUE
             rest == ExpectedRows(N, K \ {k})
         IN IF RefTotal(N, k) # 0
            THEN SetToBag({ExpectedRow(N, k)}) (+) rest
            ELSE rest

\* the output rows' numeric aggregate columns
NumericColumns == Range(historical_names) \ attributes

(***************************************************************************)
(* C4 as claimed.  In every output row the numeric aggregate columns sum   *)
(* to more than zero, whatever the source field set and target column      *)
(* list.                                                                   *)
(***************************************************************************)
C4_PositiveOutputSum ==
    Done => \A o \in OutRows : SumCols(o, NumericColumns) > 0

(***************************************************************************)
(* C4 as amended.  Every retained cube row has a positive sum over the     *)
(* source aggregate fields; so whenever every source aggregate field is a  *)
(* target column, the numeric aggregate columns of every output row sum    *)
(* to more than zero.                                                      *)
(***************************************************************************)
C4_PositiveSourceSum ==
    Done =>
      /\ \A c \in filtered_df : SumCols(c.row, aggregates(topline_names)) > 0
      /\ aggregates(topline_names) \subseteq Range(historical_names)
           => \A o \in OutRows : SumCols(o, NumericColumns) > 0

\* output exists, every source aggregate is a target column, and a cube
\* cell with an all-zero sum was there to be pruned
C4_Witness ==
    /\ Done
    /\ OutRows # {}
    /\ aggregates(topline_names) \subseteq Range(historical_names)
    /\ \E k \in CubeKeys(Dated) : RefTotal(Dated, k) = 0

(***************************************************************************)
(* C8.  The filter discards exactly the cube rows without a concrete date  *)
(* and those whose aggregate fields are all zero: the output holds one row *)
(* for every cube row with a concrete date and a non-zero total, with its  *)
(* sums, and nothing else.                                                 *)
(***************************************************************************)
C8_FilterExact ==
    Done =>
      LET N == Dated
      IN formatted_df.rows = ExpectedRows(N, CubeKeys(N))

\* a cube cell with an all-zero sum and one with a zero field but a
\* non-zero total both arose
C8_Witness ==
    /\ Done
    /\ \E k \in CubeKeys(Dated) : RefTotal(Dated, k) = 0
    /\ \E k \in CubeKeys(Dated) :
          /\ RefTotal(Dated, k) > 0
          /\ \E a \in aggregates(topline_names) : RefSum(Dated, k, a) = 0
    /\ OutRows # {}

\* the two-row scenario of the specification and the rows it must yield
Scenario ==
    SetToBag({[geo |-> "FR", channel |-> "release", os |-> "Windows",
               report_start |-> Tok0101, actives |-> 5, hours |-> 10],
              [geo |-> "FR", channel |-> "beta", os |-> "Windows",
               report_start |-> Tok0101, actives |-> 3, hours |-> 4]})

ScenarioRows ==
    {[date |-> Hyphenate(Tok0101), geo |-> "FR", channel |-> "all",
      os |-> "Windows", actives |-> 8, hours |-> 14],
     [date |-> Hyphenate(Tok0101), geo |-> "all", channel |-> "all",
      os |-> "all", actives |-> 8, hours |-> 14]}

\* the output rows cut down to the columns S
Columns(S) == {[c \in S |-> o[c]] : o \in OutRows}

CoveredBy(N, o) ==
    {n \in DOMAIN N :
        /\ n["date"] = o["date"]
        /\ \A d \in Dims : o[d] = "all" \/ o[d] = n[d]}

(***************************************************************************)
(* C1 as claimed.  Every aggregate column of every output row is the sum   *)
(* of that field over the input rows with a valid token whose reformatted  *)
(* date is the row's date and whose normalized geo, channel and os each    *)
(* equal the row's value or are covered by the row's "all"; and the        *)
(* FR/release, FR/beta scenario yields the two rows of the specification.  *)
(***************************************************************************)
C1_CubeSums ==
    Done =>
      /\ LET N == Normalized
         IN \A o \in OutRows :
              \A a \in aggregates(topline_names) \cap Range(historical_names) :
                o[a] = SumBag(N, CoveredBy(N, o), a)
      /\ (df = Scenario /\ {"actives", "hours"} \subseteq
                              aggregates(topline_names) \cap Range(historical_names))
           => ScenarioRows \subseteq Columns(attributes \cup {"actives", "hours"})

(***************************************************************************)
(* C9 as claimed.  A categorical output column holds "all" only in the     *)
(* subtotal row over that dimension: a group keyed on a concrete source    *)
(* value of a dimension is never emitted with "all" in that dimension.     *)
(***************************************************************************)
C9_AllMeansWildcard ==
    Done =>
      \A c \in filtered_df :
        \A d \in Dims : c.row[d] = "all" => d \notin c.gid

(***************************************************************************)
(* C10 as claimed.  No two output rows share a (date, geo, channel, os)    *)
(* tuple.                                                                  *)
(***************************************************************************)
C10_UniqueKeys ==
    Done =>
      /\ \A o \in OutRows : formatted_df.rows[o] = 1
      /\ \A o1, o2 \in OutRows :
            (\A d \in attributes : o1[d] = o2[d]) => o1 = o2

(***************************************************************************)
(* C7 (the result is independent of the parallel execution) is a property  *)
(* of the dataframe engine: lines 85-92 declare cube().agg(sum) and leave  *)
(* the partitioning, the scheduling and the order in which partial sums    *)
(* are merged to the engine, none of which is in the source.  Here the     *)
(* output is reformat_data of the input multiset, so no formula about the  *)
(* execution order can be stated.                                          *)
(***************************************************************************)

====
